---- MODULE Spec2Model ----
(***************************************************************************)
(* Cart ledger, price aggregation and order assembly of the storefront.    *)
(*                                                                         *)
(*   cart slice reducers and selectors   src/unnamed/part_009              *)
(*   TotalAmount.cartTotal               src/components/layout/cart/       *)
(*                                       components/TotalAmount.tsx        *)
(*   PaymentPage.productsInOrder         src/unnamed/part_008              *)
(*                                                                         *)
(* An optional JavaScript value (undefined or a number) is a set: {} is    *)
(* undefined and {v} is the number v.                                      *)
(***************************************************************************)
EXTENDS Integers, Sequences, FiniteSets

\* ------------------------------------------------------------------ bounds
\* Largest magnitude of a quantity / units argument of a dispatched action.
MaxArg == 2
\* Largest magnitude of a quantity kept in the ledger (guards of the actions).
MaxQty == 3
\* Largest quantity kept in the ledger of the pricing specification.
MaxPriceQty == 2

\* Product identifiers of the dispatched actions.
Ids == {1, 2}
Args == (0 - MaxArg)..MaxArg

VARIABLES
    productsData,   \* state.cartReducer.productsData : sequence of lines
    products,       \* state.cartReducer.products     : sequence of snapshots
    delivery,       \* state.cartReducer.delivery     : delivery product
    productsQuery,  \* PaymentPage: data of useGetProductsByIdsQuery
    deliveryData,   \* state.cartReducer.deliveryData : date, time, address, interval
    order,          \* state.orderReducer.order.products : the stored draft
    mounted,        \* PaymentPage is mounted
    last,           \* the action dispatched last, with its payload
    form,           \* CalendarForm: mounted, date, time, currentInterval
    filterCall,     \* a call of filterIntervalsByDate: inputs and result
    accountsQuery,  \* PaymentPage: data of useGetAccountsQuery
    paymentMethods, \* state.orderReducer.paymentMethods : the whitelist
    paymentAccountIdentifier, \* state.orderReducer.order.paymentAccountIdentifier
    page,           \* LoadMore: the page parameter of the URL
    totalPages      \* LoadMore: the totalPages prop

vars == <<productsData, products, delivery, productsQuery, deliveryData, order,
          mounted, last, form, filterCall, accountsQuery, paymentMethods,
          paymentAccountIdentifier, page, totalPages>>

\* The state of the components next to the cart.
calendarVars == <<form, filterCall>>
paymentVars == <<accountsQuery, paymentMethods, paymentAccountIdentifier>>
gridVars == <<page, totalPages>>

\* ------------------------------------------------------- JavaScript helpers
Undefined == {}
Some(v) == {v}
ValueOf(o) == CHOOSE v \in o : TRUE
\* Boolean(o) for an optional number: undefined and 0 are falsy.
Truthy(o) == o # {} /\ o # {0}
\* a ?? d
Nullish(o, d) == IF o = {} THEN d ELSE ValueOf(o)
\* a || b || c || 0 over optional numbers
FirstTruthy(a, b, c) ==
    IF Truthy(a) THEN ValueOf(a)
    ELSE IF Truthy(b) THEN ValueOf(b)
    ELSE IF Truthy(c) THEN ValueOf(c)
    ELSE 0

MathMax(a, b) == IF a >= b THEN a ELSE b
MathMin(a, b) == IF a <= b THEN a ELSE b

\* Array.prototype.findIndex on the id: the first index (1-based), 0 for -1.
findIndex(s, id) ==
    IF \E i \in 1..Len(s) : s[i].id = id
    THEN CHOOSE i \in 1..Len(s) :
             s[i].id = id /\ \A j \in 1..(i - 1) : s[j].id # id
    ELSE 0

\* Array.prototype.filter((item) => item.id !== id)
RECURSIVE filterOut(_, _)
filterOut(s, id) ==
    IF s = <<>> THEN <<>>
    ELSE IF Head(s).id # id
         THEN <<Head(s)>> \o filterOut(Tail(s), id)
         ELSE filterOut(Tail(s), id)

\* state.productsData[index]?.id || action.payload.id
IdOr(line, id) == IF line.id # 0 THEN line.id ELSE id

\* ------------------------------------------------------------ cart reducers
\* addProductToCart pushing a line without looking for one of the same id.
addProductToCartFnAlwaysAppends(s, id, selected, quantity) ==
    Append(s, [id |-> id, selected |-> selected,
               quantity |-> MathMax(1, quantity)])

\* addProductToCart without the floor at 1.
addProductToCartFnNoFloor(s, id, selected, quantity) ==
    LET index == findIndex(s, id) IN
    IF index = 0
    THEN Append(s, [id |-> id, selected |-> selected, quantity |-> quantity])
    ELSE [s EXCEPT ![index] =
             [id |-> IdOr(s[index], id),
              selected |-> s[index].selected,
              quantity |-> s[index].quantity + quantity]]

addProductToCartFn(s, id, selected, quantity) ==
    LET index == findIndex(s, id) IN
    IF index = 0
    THEN Append(s, [id |-> id, selected |-> selected,
                    quantity |-> MathMax(1, quantity)])
    ELSE [s EXCEPT ![index] =
             [id |-> IdOr(s[index], id),
              selected |-> s[index].selected,
              quantity |-> MathMax(1, s[index].quantity + quantity)]]

\* increaseProductQty keeping the flag of the line (?? in place of ||).
increaseProductQtyFnKeepsFlag(s, id, quantity, units) ==
    LET index == findIndex(s, id) IN
    IF index = 0
    THEN Append(s, [id |-> id, quantity |-> 1, selected |-> TRUE])
    ELSE [s EXCEPT ![index] =
             [id |-> IdOr(s[index], id),
              selected |-> s[index].selected,
              quantity |-> MathMin(s[index].quantity + quantity, units)]]

\* increaseProductQty without the limit to the available units.
increaseProductQtyFnNoClamp(s, id, quantity, units) ==
    LET index == findIndex(s, id) IN
    IF index = 0
    THEN Append(s, [id |-> id, quantity |-> 1, selected |-> TRUE])
    ELSE [s EXCEPT ![index] =
             [id |-> IdOr(s[index], id),
              selected |-> TRUE,
              quantity |-> s[index].quantity + quantity]]

increaseProductQtyFn(s, id, quantity, units) ==
    LET index == findIndex(s, id) IN
    IF index = 0
    THEN Append(s, [id |-> id, quantity |-> 1, selected |-> TRUE])
    ELSE LET qty == s[index].quantity + quantity
             clampedQty == MathMin(qty, units)
         IN [s EXCEPT ![index] =
                [id |-> IdOr(s[index], id),
                 selected |-> (s[index].selected \/ TRUE),
                 quantity |-> clampedQty]]

\* decreaseProductQty removing the line only below zero.
decreaseProductQtyFnKeepsZero(s, id, quantity) ==
    LET index == findIndex(s, id) IN
    IF index = 0 THEN s
    ELSE LET qty == s[index].quantity - quantity IN
         IF qty < 0 THEN filterOut(s, id)
         ELSE [s EXCEPT ![index] =
                  [id |-> IdOr(s[index], id),
                   selected |-> s[index].selected,
                   quantity |-> qty]]

decreaseProductQtyFn(s, id, quantity) ==
    LET index == findIndex(s, id) IN
    IF index = 0 THEN s
    ELSE LET qty == s[index].quantity - quantity IN
         IF qty <= 0 THEN filterOut(s, id)
         ELSE [s EXCEPT ![index] =
                  [id |-> IdOr(s[index], id),
                   selected |-> s[index].selected,
                   quantity |-> qty]]

\* setProductQty without the limit to the available units.
setProductQtyFnNoClamp(s, id, quantity, units) ==
    LET index == findIndex(s, id) IN
    IF quantity <= 0 THEN filterOut(s, id)
    ELSE IF index # 0
         THEN [s EXCEPT ![index] =
                  [id |-> IdOr(s[index], id),
                   selected |-> s[index].selected,
                   quantity |-> quantity]]
         ELSE Append(s, [id |-> id, quantity |-> quantity, selected |-> TRUE])

setProductQtyFn(s, id, quantity, units) ==
    LET index == findIndex(s, id)
        qty == quantity
    IN IF qty <= 0 THEN filterOut(s, id)
       ELSE LET clampedQty == MathMin(qty, units) IN
            IF index # 0
            THEN [s EXCEPT ![index] =
                     [id |-> IdOr(s[index], id),
                      selected |-> s[index].selected,
                      quantity |-> clampedQty]]
            ELSE Append(s, [id |-> id, quantity |-> clampedQty,
                            selected |-> TRUE])

removeProductFn(s, id) == filterOut(s, id)

\* deselectProduct clearing the flag instead of flipping it.
deselectProductFnClears(s, id) ==
    [i \in 1..Len(s) |->
        IF s[i].id = id
        THEN [s[i] EXCEPT !.selected = FALSE]
        ELSE s[i]]

deselectProductFn(s, id) ==
    [i \in 1..Len(s) |->
        IF s[i].id = id
        THEN [s[i] EXCEPT !.selected = ~s[i].selected]
        ELSE s[i]]

addProductsToCartFn(payload) == payload

\* removeAllProducts keeping the cached snapshots.
removeAllProductsFnKeepsSnapshots(ps) ==
    [productsData |-> <<>>, products |-> ps]

\* initialState.productsData and initialState.products; ps is state.products.
removeAllProductsFn(ps) == [productsData |-> <<>>, products |-> <<>>]

addDeliveryToCartFn(payload) == payload

\* setDeliveryData keeping the stored interval whatever the payload holds.
setDeliveryDataFnKeepsInterval(dd, payload) ==
    [date |-> payload.date, time |-> payload.time,
     address |-> payload.address, interval |-> dd.interval]

\* payload.interval is optional: {} is undefined, {v} is the list v.
setDeliveryDataFn(dd, payload) ==
    [date |-> payload.date, time |-> payload.time,
     address |-> payload.address,
     interval |-> IF payload.interval # Undefined
                  THEN ValueOf(payload.interval)
                  ELSE dd.interval]

\* ---------------------------------------------------------- cart selectors
\* Array.prototype.some((item) => item.selected)
SomeSelected(s) == \E i \in 1..Len(s) : s[i].selected

\* isInStock of selectCartTotal and of productsInOrder, for the snapshot found
\* at index k of the list ps (k = 0: find returned undefined).
isInStock(ps, k) ==
    /\ k # 0
    /\ ps[k].statusIdentifier = "in_stock"
    /\ Nullish(ps[k].units, 0) >= 1

\* The inclusion test of selectCartTotal without the stock check.
InTotalIgnoresStock(line, ps) ==
    line.selected /\ findIndex(ps, line.id) # 0

\* The inclusion test of selectCartTotal's reduce step: the line is selected
\* and the snapshot found by id is in stock with at least one unit.
InTotal(line, ps) ==
    line.selected /\ isInStock(ps, findIndex(ps, line.id))

\* The reduce step of selectCartTotal without the stock check.
LineAmountNoStockCheck(line, ps) ==
    IF line.selected
    THEN LET k == findIndex(ps, line.id) IN
         IF k # 0
         THEN FirstTruthy(ps[k].sale, ps[k].priceAttr, ps[k].price)
                  * line.quantity
         ELSE 0
    ELSE 0

\* The reduce step of selectCartTotal reading the price before the sale value.
LineAmountPriceBeforeSale(line, ps) ==
    IF line.selected
    THEN LET k == findIndex(ps, line.id) IN
         IF isInStock(ps, k)
         THEN FirstTruthy(ps[k].priceAttr, ps[k].price, ps[k].sale)
                  * line.quantity
         ELSE 0
    ELSE 0

\* What one step of the reduce of selectCartTotal adds for the line.
LineAmount(line, ps) ==
    IF InTotal(line, ps)
    THEN LET k == findIndex(ps, line.id) IN
         FirstTruthy(ps[k].sale, ps[k].priceAttr, ps[k].price) * line.quantity
    ELSE 0

RECURSIVE selectCartTotalFn(_, _)
selectCartTotalFn(s, ps) ==
    IF s = <<>> THEN 0
    ELSE selectCartTotalFn(SubSeq(s, 1, Len(s) - 1), ps)
             + LineAmount(s[Len(s)], ps)

selectCartTotal == selectCartTotalFn(productsData, products)

selectIsInCart(productId) ==
    \E i \in 1..Len(productsData) : productsData[i].id = productId

\* ------------------------------------------------------------- TotalAmount
\* hasProducts testing for any line instead of a selected line.
hasProductsAnyLine == Len(productsData) > 0

hasProducts == SomeSelected(productsData)

deliveryPrice == FirstTruthy(delivery.priceAttr, delivery.price, Undefined)

\* cartTotal without the reset to 0.
cartTotalNoReset == selectCartTotal + deliveryPrice

cartTotal == IF ~hasProducts THEN 0 ELSE selectCartTotal + deliveryPrice

\* ------------------------------------------------------------- PaymentPage
hasCartItems == SomeSelected(productsData)

combinedProducts ==
    IF ~productsQuery.loaded \/ Len(productsQuery.data) = 0
    THEN products
    ELSE productsQuery.data

\* The filter callback of productsInOrder without the test of item.selected.
InOrderIgnoresSelected(item, ps) ==
    LET k == findIndex(ps, item.id) IN
    IF k = 0 THEN FALSE ELSE isInStock(ps, k)

\* The filter callback of productsInOrder.
InOrder(item, ps) ==
    IF ~item.selected THEN FALSE
    ELSE LET k == findIndex(ps, item.id) IN
         IF k = 0 THEN FALSE ELSE isInStock(ps, k)

\* orderProducts writing quantity 1 on every line.
RECURSIVE orderProductsUnitQuantity(_, _)
orderProductsUnitQuantity(s, ps) ==
    IF s = <<>> THEN <<>>
    ELSE IF InOrder(Head(s), ps)
         THEN <<[productId |-> Head(s).id, quantity |-> 1,
                 selected |-> Head(s).selected]>>
                  \o orderProductsUnitQuantity(Tail(s), ps)
         ELSE orderProductsUnitQuantity(Tail(s), ps)

RECURSIVE orderProducts(_, _)
orderProducts(s, ps) ==
    IF s = <<>> THEN <<>>
    ELSE IF InOrder(Head(s), ps)
         THEN <<[productId |-> Head(s).id, quantity |-> Head(s).quantity,
                 selected |-> Head(s).selected]>>
                  \o orderProducts(Tail(s), ps)
         ELSE orderProducts(Tail(s), ps)

\* productsInOrder adding the delivery only when it is in stock.
productsInOrderStockGatedDelivery ==
    LET lines == orderProducts(productsData, combinedProducts) IN
    IF Truthy(delivery.id) /\ delivery.statusIdentifier = "in_stock"
           /\ Nullish(delivery.units, 0) >= 1
    THEN Append(lines, [productId |-> ValueOf(delivery.id), quantity |-> 1,
                        selected |-> TRUE])
    ELSE lines

\* delivery is an object in every state of the slice, so !deliveryData is false
\* and the early return of productsInOrder is never taken.
productsInOrder ==
    LET lines == orderProducts(productsData, combinedProducts) IN
    IF Truthy(delivery.id)
    THEN Append(lines, [productId |-> ValueOf(delivery.id), quantity |-> 1,
                        selected |-> TRUE])
    ELSE lines

\* -------------------------------------------------------------- the actions
Dispatched(op, id, quantity, units, selected) ==
    [op |-> op, id |-> id, quantity |-> quantity, units |-> units,
     selected |-> selected]

\* Every stored quantity stays within the bound of the model.
InBound(s, cap) == \A i \in 1..Len(s) :
    s[i].quantity >= 0 - cap /\ s[i].quantity <= cap

\* {} as IProductsEntity: every field read is undefined.
EmptyDelivery ==
    [id |-> Undefined, priceAttr |-> Undefined, price |-> Undefined,
     statusIdentifier |-> "undefined", units |-> Undefined]

\* ----------------------------------------------------- external collaborators
Snapshot(id, status, units, sale, priceAttr, price) ==
    [id |-> id, statusIdentifier |-> status, units |-> units, sale |-> sale,
     priceAttr |-> priceAttr, price |-> price]

\* The product entities the catalogue may return for one id.
SnapshotsOf(id) ==
    { Snapshot(id, "in_stock", {2}, {2}, {3}, {5}),
      Snapshot(id, "in_stock", {1}, {0}, {3}, {}),
      Snapshot(id, "in_stock", {0}, {}, {}, {5}),
      Snapshot(id, "in_stock", {}, {2}, {3}, {5}),
      Snapshot(id, "out_of_stock", {2}, {}, {}, {5}) }

\* The responses of the catalogue: at most one entity per id, in any order.
SnapshotLists ==
    {<<>>}
        \cup { <<p>> : p \in UNION { SnapshotsOf(id) : id \in Ids } }
        \cup { <<p, q>> : p \in SnapshotsOf(1), q \in SnapshotsOf(2) }
        \cup { <<q, p>> : p \in SnapshotsOf(1), q \in SnapshotsOf(2) }

\* The delivery products.
Deliveries ==
    { [id |-> {9}, priceAttr |-> {4}, price |-> {},
       statusIdentifier |-> "in_stock", units |-> {1}],
      [id |-> {9}, priceAttr |-> {}, price |-> {6},
       statusIdentifier |-> "out_of_stock", units |-> {0}] }

\* ------------------------------------------------------------- order store
\* createOrder followed by addProducts: the store holds the products handed
\* over (formData and paymentAccountIdentifier are handed back as they were).
createOrderFn(stored, payloadProducts) == payloadProducts

\* The effect dispatching only for a list of two or more lines.
createOrderEffectNeedsTwo(isMounted, stored, pio) ==
    IF isMounted /\ Len(pio) > 1 THEN createOrderFn(stored, pio) ELSE stored

\* PaymentPage's effect on productsInOrder, run after every render that
\* recomputed productsInOrder: it dispatches only for a non-empty list.
\* pio is productsInOrder of the state the render saw.
createOrderEffect(isMounted, stored, pio) ==
    IF isMounted /\ Len(pio) > 0 THEN createOrderFn(stored, pio) ELSE stored

\* initialState.deliveryData; the date is the time of the page load.
initialDeliveryData ==
    [date |-> 1, time |-> "", address |-> "", interval |-> <<>>]

\* A cart action that puts the delivery selection back to its initial value.
CartFrameResetsDeliveryData ==
    /\ deliveryData' = initialDeliveryData
    /\ UNCHANGED mounted
    /\ UNCHANGED <<calendarVars, paymentVars, gridVars>>
    /\ order' = createOrderEffect(mounted', order, productsInOrder')

\* What a cart action leaves alone, and the effect it triggers on a mounted
\* PaymentPage.
CartFrame ==
    /\ UNCHANGED <<deliveryData, mounted>>
    /\ UNCHANGED <<calendarVars, paymentVars, gridVars>>
    /\ order' = createOrderEffect(mounted', order, productsInOrder')

\* The catalogue's responses with at most one entity.
ShortSnapshotLists == { l \in SnapshotLists : Len(l) <= 1 }

\* The payloads of setDeliveryData.
Dates == {1, 2}
Times == {"", "10:00"}
Addresses == {"", "Main St"}
Intervals == {<<>>, <<10, 11>>}
DeliveryPayloads ==
    [date : Dates, time : Times, address : Addresses,
     interval : {Undefined} \cup { {i} : i \in Intervals }]

\* The cart slice after construction, no page mounted.
CartInit ==
    /\ productsData = <<>>
    /\ products = <<>>
    /\ delivery = EmptyDelivery
    /\ productsQuery = [loaded |-> FALSE, data |-> <<>>]
    /\ deliveryData = initialDeliveryData
    /\ order = <<>>
    /\ mounted = FALSE
    /\ last = Dispatched("init", 0, 0, 0, FALSE)

\* CalendarForm is not mounted and filterIntervalsByDate has not been called.
CalendarInit ==
    /\ form = [mounted |-> FALSE, date |-> 0, time |-> "",
                currentInterval |-> <<>>, clicked |-> FALSE, offset |-> 0]
    /\ filterCall = [intervals |-> Undefined, targetDate |-> 0, offset |-> 0,
                      called |-> FALSE, result |-> <<>>]

\* The accounts have not been fetched, no whitelist, no payment method chosen.
PaymentInit ==
    /\ accountsQuery = Undefined
    /\ paymentMethods = Undefined
    /\ paymentAccountIdentifier = ""

\* The products grid on its first page of one page.
GridInit ==
    /\ page = 1
    /\ totalPages = 1

Init == CartInit /\ CalendarInit /\ PaymentInit /\ GridInit

addProductToCartIn(Q, cap) ==
    \E id \in Ids, selected \in BOOLEAN, quantity \in Q :
        /\ productsData' = addProductToCartFn(productsData, id, selected, quantity)
        /\ InBound(productsData', cap)
        /\ last' = Dispatched("addProductToCart", id, quantity, 0, selected)
        /\ UNCHANGED <<products, delivery, productsQuery>>
        /\ CartFrame

increaseProductQty ==
    \E id \in Ids, quantity \in Args, units \in Args :
        /\ productsData' = increaseProductQtyFn(productsData, id, quantity, units)
        /\ InBound(productsData', MaxQty)
        /\ last' = Dispatched("increaseProductQty", id, quantity, units, FALSE)
        /\ UNCHANGED <<products, delivery, productsQuery>>
        /\ CartFrame

decreaseProductQty ==
    \E id \in Ids, quantity \in Args :
        /\ productsData' = decreaseProductQtyFn(productsData, id, quantity)
        /\ InBound(productsData', MaxQty)
        /\ last' = Dispatched("decreaseProductQty", id, quantity, 0, FALSE)
        /\ UNCHANGED <<products, delivery, productsQuery>>
        /\ CartFrame

setProductQty ==
    \E id \in Ids, quantity \in Args, units \in Args :
        /\ productsData' = setProductQtyFn(productsData, id, quantity, units)
        /\ InBound(productsData', MaxQty)
        /\ last' = Dispatched("setProductQty", id, quantity, units, FALSE)
        /\ UNCHANGED <<products, delivery, productsQuery>>
        /\ CartFrame

removeProduct ==
    \E id \in Ids :
        /\ productsData' = removeProductFn(productsData, id)
        /\ last' = Dispatched("removeProduct", id, 0, 0, FALSE)
        /\ UNCHANGED <<products, delivery, productsQuery>>
        /\ CartFrame

deselectProduct ==
    \E id \in Ids :
        /\ productsData' = deselectProductFn(productsData, id)
        /\ last' = Dispatched("deselectProduct", id, 0, 0, FALSE)
        /\ UNCHANGED <<products, delivery, productsQuery>>
        /\ CartFrame

removeAllProducts ==
    /\ productsData' = removeAllProductsFn(products).productsData
    /\ products' = removeAllProductsFn(products).products
    /\ last' = Dispatched("removeAllProducts", 0, 0, 0, FALSE)
    /\ UNCHANGED <<delivery, productsQuery>>
    /\ CartFrame

\* PaymentPage: the products query (skipped for an empty ledger) delivers its
\* data and the effect on that data dispatches addProductsToCart.
addProductsToCartIn(responses) ==
    \E payload \in responses :
        /\ Len(productsData) # 0
        /\ productsQuery' = [loaded |-> TRUE, data |-> payload]
        /\ products' = addProductsToCartFn(payload)
        /\ last' = Dispatched("addProductsToCart", 0, 0, 0, FALSE)
        /\ UNCHANGED <<productsData, delivery>>
        /\ CartFrame

addDeliveryToCart ==
    \E payload \in Deliveries :
        /\ delivery' = addDeliveryToCartFn(payload)
        /\ last' = Dispatched("addDeliveryToCart", 0, 0, 0, FALSE)
        /\ UNCHANGED <<productsData, products, productsQuery>>
        /\ CartFrame

addProductsToCart == addProductsToCartIn(SnapshotLists)

\* Any dispatch of setDeliveryData; productsInOrder does not read
\* cartReducer.deliveryData, so PaymentPage's effect is not triggered.
setDeliveryData ==
    \E payload \in DeliveryPayloads :
        /\ deliveryData' = setDeliveryDataFn(deliveryData, payload)
        /\ last' = [op |-> "setDeliveryData", by |-> "dispatch",
                    payload |-> payload]
        /\ UNCHANGED <<productsData, products, delivery, productsQuery,
                       order, mounted>>
        /\ UNCHANGED <<calendarVars, paymentVars, gridVars>>

\* The calendar form's Apply handler: the form's date and time, the stored
\* address, no interval.
onApplyHandle ==
    \E date \in Dates, time \in Times :
        LET payload == [date |-> date, time |-> time,
                        address |-> deliveryData.address,
                        interval |-> Undefined]
        IN /\ deliveryData' = setDeliveryDataFn(deliveryData, payload)
           /\ last' = [op |-> "setDeliveryData", by |-> "onApplyHandle",
                       payload |-> payload]
           /\ UNCHANGED <<productsData, products, delivery, productsQuery,
                          order, mounted>>
           /\ UNCHANGED <<calendarVars, paymentVars, gridVars>>

\* PaymentPage mounts: its first render computes productsInOrder and the
\* effect runs (the effect re-dispatching the stored delivery changes nothing).
mountPaymentPage ==
    /\ ~mounted
    /\ mounted' = TRUE
    /\ order' = createOrderEffect(TRUE, order, productsInOrder)
    /\ last' = Dispatched("mountPaymentPage", 0, 0, 0, FALSE)
    /\ UNCHANGED <<productsData, products, delivery, productsQuery,
                   deliveryData>>
    /\ UNCHANGED <<calendarVars, paymentVars, gridVars>>

addProductToCart == addProductToCartIn(Args, MaxQty)

Next ==
    \/ addProductToCart
    \/ increaseProductQty
    \/ decreaseProductQty
    \/ setProductQty
    \/ removeProduct
    \/ deselectProduct
    \/ removeAllProducts

Spec == Init /\ [][Next]_vars

\* The ledger with quantities 1..MaxPriceQty, under every catalogue response and
\* every delivery product: the states of the price aggregation and of the
\* order assembly.
addProductToCartPriced == addProductToCartIn(1..MaxPriceQty, MaxPriceQty)

NextPrice ==
    \/ addProductToCartPriced
    \/ deselectProduct
    \/ removeAllProducts
    \/ addProductsToCart
    \/ addDeliveryToCart

SpecPrice == Init /\ [][NextPrice]_vars

\* The product's available units (units_product), as the product page hands
\* them to the quantity controls: product 1 has one unit, product 2 has two.
availableUnits(id) == id

\* The quantity-raising operations, each called with the product's units.
addProductToCartPositive == addProductToCartIn(1..MaxArg, MaxQty)

increaseProductQtyAvailable ==
    \E id \in Ids, quantity \in 1..MaxArg :
        /\ productsData' = increaseProductQtyFn(productsData, id, quantity,
                                                availableUnits(id))
        /\ InBound(productsData', MaxQty)
        /\ last' = Dispatched("increaseProductQty", id, quantity,
                              availableUnits(id), FALSE)
        /\ UNCHANGED <<products, delivery, productsQuery>>
        /\ CartFrame

setProductQtyAvailable ==
    \E id \in Ids, quantity \in Args :
        /\ productsData' = setProductQtyFn(productsData, id, quantity,
                                           availableUnits(id))
        /\ InBound(productsData', MaxQty)
        /\ last' = Dispatched("setProductQty", id, quantity,
                              availableUnits(id), FALSE)
        /\ UNCHANGED <<products, delivery, productsQuery>>
        /\ CartFrame

NextAvailable ==
    \/ addProductToCartPositive
    \/ increaseProductQtyAvailable
    \/ setProductQtyAvailable
    \/ deselectProduct

SpecAvailable == Init /\ [][NextAvailable]_vars

\* The delivery selection next to the ledger and the delivery product.
NextDelivery ==
    \/ addProductToCartPriced
    \/ deselectProduct
    \/ addDeliveryToCart
    \/ setDeliveryData
    \/ onApplyHandle

SpecDelivery == Init /\ [][NextDelivery]_vars

\* PaymentPage and the order store, with single-quantity lines.
addProductToCartSingle == addProductToCartIn({1}, 1)

addProductsToCartShort == addProductsToCartIn(ShortSnapshotLists)

NextPayment ==
    \/ mountPaymentPage
    \/ addProductToCartSingle
    \/ deselectProduct
    \/ removeAllProducts
    \/ addProductsToCartShort
    \/ addDeliveryToCart

SpecPayment == Init /\ [][NextPayment]_vars

\* ================================================================== claims
HasLine(s, id) == \E i \in 1..Len(s) : s[i].id = id
LineOf(s, id) == s[CHOOSE i \in 1..Len(s) : s[i].id = id]

\* The line is selected and the first snapshot of ps with its id is in stock
\* with at least one available unit.
Qualifies(line, ps) ==
    /\ line.selected
    /\ \E k \in 1..Len(ps) :
        /\ ps[k].id = line.id
        /\ \A j \in 1..(k - 1) : ps[j].id # line.id
        /\ ps[k].statusIdentifier = "in_stock"
        /\ \E u \in ps[k].units : u >= 1

\* C1: every line of productsData has quantity >= 1 after any sequence of
\* ledger operations with arbitrary integer arguments.
C1_QuantityAtLeastOne ==
    \A i \in 1..Len(productsData) : productsData[i].quantity >= 1

\* The product lines of the draft: productsInOrder without the delivery line
\* appended last.
draftProductLines ==
    SubSeq(productsInOrder, 1,
           Len(productsInOrder) - (IF Truthy(delivery.id) THEN 1 ELSE 0))

\* C2: the draft has a product line for a cart line exactly when that line is
\* selected and its snapshot is in stock with at least one unit, and each
\* product line is {productId: id, quantity: quantity, selected: true} of a
\* cart line.
C2_DraftLinesAreQualifyingLines ==
    /\ \A i \in 1..Len(productsData) :
        (\E j \in 1..Len(draftProductLines) :
            draftProductLines[j].productId = productsData[i].id)
            <=> Qualifies(productsData[i], combinedProducts)
    /\ \A j \in 1..Len(draftProductLines) :
        /\ draftProductLines[j].selected = TRUE
        /\ \E i \in 1..Len(productsData) :
            /\ productsData[i].id = draftProductLines[j].productId
            /\ productsData[i].quantity = draftProductLines[j].quantity
    /\ Len(draftProductLines) =
        Cardinality({i \in 1..Len(productsData) :
                        Qualifies(productsData[i], combinedProducts)})

C2_Witness ==
    /\ Len(draftProductLines) >= 1
    /\ \E i \in 1..Len(productsData) :
        /\ productsData[i].selected
        /\ HasLine(combinedProducts, productsData[i].id)
        /\ ~Qualifies(productsData[i], combinedProducts)

QualifiesInSlice(line) == Qualifies(line, products)

\* C3: the lines that are unselected, unmatched, not in stock or without an
\* available unit add nothing to selectCartTotal: the total is the total of
\* the qualifying lines alone, and 0 when no line qualifies.
C3_TotalCountsQualifyingLinesOnly ==
    /\ selectCartTotal =
        selectCartTotalFn(SelectSeq(productsData, QualifiesInSlice), products)
    /\ (\A i \in 1..Len(productsData) : ~QualifiesInSlice(productsData[i]))
        => selectCartTotal = 0

C3_Witness ==
    /\ selectCartTotal > 0
    /\ \E i \in 1..Len(productsData) :
        /\ productsData[i].selected
        /\ HasLine(products, productsData[i].id)
        /\ ~QualifiesInSlice(productsData[i])
        /\ Truthy(LineOf(products, productsData[i].id).price)

\* C4 as claimed: the displayed total includes the delivery price exactly
\* when some line is selected and in stock, and is 0 when no line qualifies.
C4_DeliveryIffQualifyingLine ==
    cartTotal =
        IF \E i \in 1..Len(productsData) : QualifiesInSlice(productsData[i])
        THEN selectCartTotal + deliveryPrice
        ELSE 0

\* C4 amended: the displayed total includes the delivery price exactly when
\* some line is selected, in stock or not, and is 0 when no line is selected.
C4_DeliveryIffSelectedLine ==
    /\ (\E i \in 1..Len(productsData) : productsData[i].selected)
        => cartTotal - selectCartTotal = deliveryPrice
    /\ (\A i \in 1..Len(productsData) : ~productsData[i].selected)
        => cartTotal = 0

C4_Witness ==
    /\ \E i \in 1..Len(productsData) : productsData[i].selected
    /\ \A i \in 1..Len(productsData) : ~QualifiesInSlice(productsData[i])
    /\ deliveryPrice > 0
    /\ cartTotal = deliveryPrice

\* C5: when no line is selected the displayed total is 0, whatever the
\* delivery price.
C5_NothingSelectedTotalZero ==
    (~\E i \in 1..Len(productsData) : productsData[i].selected)
        => cartTotal = 0

C5_Witness ==
    /\ Len(productsData) >= 1
    /\ ~\E i \in 1..Len(productsData) : productsData[i].selected
    /\ \E i \in 1..Len(productsData) :
        Qualifies([productsData[i] EXCEPT !.selected = TRUE], products)
    /\ deliveryPrice > 0
    /\ cartTotal = 0

\* C6 as claimed: after setProductQty(id, q, max), q > max leaves the line
\* with quantity max and q <= 0 leaves no line for id.
C6_SetAboveMaxStoresMax ==
    last.op = "setProductQty" =>
        /\ last.quantity > last.units =>
            /\ HasLine(productsData, last.id)
            /\ LineOf(productsData, last.id).quantity = last.units
        /\ last.quantity <= 0 => ~HasLine(productsData, last.id)

\* C6 amended: after setProductQty(id, q, max), q > max with q > 0 leaves the
\* line with quantity max and q <= 0 leaves no line for id.
C6_SetPositiveAboveMaxStoresMax ==
    last.op = "setProductQty" =>
        /\ (last.quantity > last.units /\ last.quantity > 0) =>
            /\ HasLine(productsData, last.id)
            /\ \A i \in 1..Len(productsData) :
                productsData[i].id = last.id
                    => productsData[i].quantity = last.units
        /\ last.quantity <= 0 => ~HasLine(productsData, last.id)

C6_Witness ==
    /\ last.op = "setProductQty"
    /\ last.quantity > 0
    /\ last.quantity > last.units
    /\ HasLine(productsData, last.id)
    /\ LineOf(productsData, last.id).quantity = last.units

\* C7: after setProductQty(id, q, maxUnits) with q > 0 the line exists with
\* 1 <= quantity <= maxUnits, and with quantity q when 1 <= q <= maxUnits.
C7_SetClampsIntoRange ==
    (last.op = "setProductQty" /\ last.quantity > 0) =>
        /\ HasLine(productsData, last.id)
        /\ LineOf(productsData, last.id).quantity >= 1
        /\ LineOf(productsData, last.id).quantity <= last.units
        /\ last.quantity <= last.units
            => LineOf(productsData, last.id).quantity = last.quantity

\* C8: increaseProductQty(id, delta, maxUnits) turns the quantity q of an
\* existing line into min(q + delta, maxUnits), and appends the line
\* {id, quantity: 1, selected: true} when there is none.
C8_IncreaseClampsOrCreates ==
    [][last'.op = "increaseProductQty" =>
        IF HasLine(productsData, last'.id)
        THEN /\ Len(productsData') = Len(productsData)
             /\ HasLine(productsData', last'.id)
             /\ LET q == LineOf(productsData, last'.id).quantity
                    sum == q + last'.quantity
                IN LineOf(productsData', last'.id).quantity =
                       (IF sum <= last'.units THEN sum ELSE last'.units)
        ELSE productsData' =
                 productsData \o <<[id |-> last'.id, quantity |-> 1,
                                    selected |-> TRUE]>>]_vars

C8_Witness ==
    /\ last.op = "increaseProductQty"
    /\ last.quantity >= 1
    /\ HasLine(productsData, last.id)
    /\ LineOf(productsData, last.id).quantity = last.units
    /\ last.units >= 2

\* C9: with every quantity-raising operation called with the product's
\* available units U >= 1, no stored quantity exceeds U.
C9_QuantityWithinAvailableUnits ==
    \A i \in 1..Len(productsData) :
        productsData[i].quantity <= availableUnits(productsData[i].id)

\* C10: decreaseProductQty(id, d) removes the line of id when q - d <= 0 and
\* otherwise leaves it with quantity q - d >= 1; without a line for id the
\* cart state is unchanged.
C10_DecreaseRemovesOrSubtracts ==
    [][last'.op = "decreaseProductQty" =>
        IF HasLine(productsData, last'.id)
        THEN LET q == LineOf(productsData, last'.id).quantity IN
             IF q - last'.quantity <= 0
             THEN /\ ~HasLine(productsData', last'.id)
                  /\ Len(productsData') = Len(productsData) - 1
             ELSE /\ Len(productsData') = Len(productsData)
                  /\ HasLine(productsData', last'.id)
                  /\ LineOf(productsData', last'.id).quantity
                         = q - last'.quantity
                  /\ LineOf(productsData', last'.id).quantity >= 1
        ELSE UNCHANGED <<productsData, products, delivery, productsQuery>>]_vars

C10_Witness ==
    /\ last.op = "decreaseProductQty"
    /\ last.quantity >= 1
    /\ HasLine(productsData, last.id)
    /\ LineOf(productsData, last.id).quantity >= 1

\* C11: addProductToCart(id, selected, delta) appends the line
\* {id, selected, quantity: max(1, delta)} when id has no line, and otherwise
\* turns the quantity q of its line into max(1, q + delta) without adding a
\* second line for id.
C11_AddInsertsOrIncrements ==
    [][last'.op = "addProductToCart" =>
        IF HasLine(productsData, last'.id)
        THEN /\ Len(productsData') = Len(productsData)
             /\ Cardinality({i \in 1..Len(productsData') :
                                productsData'[i].id = last'.id}) = 1
             /\ LET sum == LineOf(productsData, last'.id).quantity
                               + last'.quantity
                IN LineOf(productsData', last'.id).quantity =
                       (IF sum >= 1 THEN sum ELSE 1)
        ELSE productsData' =
                 productsData \o
                     <<[id |-> last'.id,
                        quantity |-> (IF last'.quantity >= 1
                                      THEN last'.quantity ELSE 1),
                        selected |-> last'.selected]>>]_vars

C11_Witness ==
    /\ last.op = "addProductToCart"
    /\ last.quantity < 0
    /\ HasLine(productsData, last.id)
    /\ LineOf(productsData, last.id).quantity = 1
    /\ LineOf(productsData, last.id).selected # last.selected

\* C12: productsData never holds two lines with the same id.
C12_LinesUniquePerId ==
    \A i, j \in 1..Len(productsData) :
        productsData[i].id = productsData[j].id => i = j

C12_Witness ==
    /\ Len(productsData) = 2
    /\ last.op = "addProductToCart"
    /\ last.quantity = 1
    /\ LineOf(productsData, last.id).quantity = 3

\* C13: deselectProduct(id) flips selected on the line of id and leaves its
\* quantity, the other lines, the order of the lines, the delivery product and
\* the delivery selection as they were; without a line of id nothing changes;
\* a second application gives back the state before the first.
C13_DeselectFlipsOnlyTheFlag ==
    [][last'.op = "deselectProduct" =>
        /\ Len(productsData') = Len(productsData)
        /\ \A i \in 1..Len(productsData) :
            /\ productsData'[i].id = productsData[i].id
            /\ productsData'[i].quantity = productsData[i].quantity
            /\ productsData'[i].selected =
                   (IF productsData[i].id = last'.id
                    THEN ~productsData[i].selected
                    ELSE productsData[i].selected)
        /\ ~HasLine(productsData, last'.id) => productsData' = productsData
        /\ UNCHANGED <<products, delivery, deliveryData, productsQuery>>
        /\ deselectProductFn(productsData', last'.id) = productsData]_vars

C13_Witness ==
    /\ last.op = "deselectProduct"
    /\ Len(productsData) = 2
    /\ HasLine(productsData, last.id)
    /\ LineOf(productsData, last.id).selected
    /\ LineOf(productsData, last.id).quantity = 2
    /\ Truthy(delivery.id)
    /\ deliveryData.interval # <<>>

\* C14: after removeAllProducts productsData and the cached snapshots are
\* empty, the cart total and the displayed total are 0 and no product is
\* reported as in the cart.
C14_RemoveAllClearsTheCart ==
    [][last'.op = "removeAllProducts" =>
        /\ productsData' = <<>>
        /\ products' = <<>>
        /\ selectCartTotal' = 0
        /\ cartTotal' = 0
        /\ \A id \in Ids : ~selectIsInCart(id)'
        /\ UNCHANGED <<delivery, deliveryData>>]_vars

C14_Witness ==
    /\ last.op = "removeAllProducts"
    /\ productsData = <<>>
    /\ products = <<>>
    /\ productsQuery.loaded
    /\ Len(productsQuery.data) = 2
    /\ Truthy(delivery.id)

\* The unit price read literally: the sale value if defined, else the price
\* attribute if defined, else the price field if defined, else 0.
unitPriceIfDefined(p) ==
    IF p.sale # Undefined THEN ValueOf(p.sale)
    ELSE IF p.priceAttr # Undefined THEN ValueOf(p.priceAttr)
    ELSE IF p.price # Undefined THEN ValueOf(p.price)
    ELSE 0

\* The unit price with 0 counted as absent at every step.
unitPriceIfNonZero(p) ==
    IF p.sale # Undefined /\ p.sale # {0} THEN ValueOf(p.sale)
    ELSE IF p.priceAttr # Undefined /\ p.priceAttr # {0}
         THEN ValueOf(p.priceAttr)
    ELSE IF p.price # Undefined /\ p.price # {0} THEN ValueOf(p.price)
    ELSE 0

\* The sum of unit price * quantity over the lines of the slice that qualify;
\* zeroIsAbsent chooses the reading of the unit price.
RECURSIVE sumOfQualifying(_, _)
sumOfQualifying(indices, zeroIsAbsent) ==
    IF indices = {} THEN 0
    ELSE LET i == CHOOSE x \in indices : TRUE
             p == LineOf(products, productsData[i].id)
             unit == IF zeroIsAbsent THEN unitPriceIfNonZero(p)
                     ELSE unitPriceIfDefined(p)
         IN unit * productsData[i].quantity
                + sumOfQualifying(indices \ {i}, zeroIsAbsent)

qualifyingIndices ==
    {i \in 1..Len(productsData) : QualifiesInSlice(productsData[i])}

\* C15 as claimed: selectCartTotal is the sum over the contributing lines of
\* unitPrice * quantity, the unit price being the sale value if present, else
\* the price, else 0.
C15_TotalIsSumOfPresentPrices ==
    selectCartTotal = sumOfQualifying(qualifyingIndices, FALSE)

\* C15 amended: the same sum, a sale value or a price of 0 counting as absent
\* (sale value if non-zero, else price attribute if non-zero, else price
\* field if non-zero, else 0).
C15_TotalIsSumOfNonZeroPrices ==
    selectCartTotal = sumOfQualifying(qualifyingIndices, TRUE)

C15_Witness ==
    /\ Cardinality(qualifyingIndices) = 2
    /\ \E i \in qualifyingIndices :
        /\ LineOf(products, productsData[i].id).sale = {0}
        /\ productsData[i].quantity = 2
    /\ \E i \in qualifyingIndices :
        LineOf(products, productsData[i].id).sale = {2}
    /\ selectCartTotal >= 8

\* The line item of the delivery product.
deliveryLine ==
    [productId |-> ValueOf(delivery.id), quantity |-> 1, selected |-> TRUE]

\* C16: with a delivery product the draft ends with the line
\* {productId: delivery.id, quantity: 1, selected: true}, after the product
\* lines, whatever the stock status and the units of the delivery product.
C16_DeliveryAppendedUngated ==
    Truthy(delivery.id) =>
        /\ Len(productsInOrder) =
            1 + Cardinality({i \in 1..Len(productsData) :
                    Qualifies(productsData[i], combinedProducts)})
        /\ productsInOrder[Len(productsInOrder)] = deliveryLine
        /\ \A j \in 1..(Len(productsInOrder) - 1) :
            HasLine(productsData, productsInOrder[j].productId)

C16_Witness ==
    /\ Truthy(delivery.id)
    /\ delivery.statusIdentifier = "out_of_stock"
    /\ delivery.units = {0}
    /\ Len(productsInOrder) = 3
    /\ productsInOrder[3] = deliveryLine

\* C17: the draft is empty exactly when no cart line qualifies and no delivery
\* product is set; with an empty ledger and a delivery product the draft is
\* the delivery line alone, and a mounted PaymentPage has handed it to the
\* order store.
C17_DraftEmptyIffNothingToOrder ==
    /\ (productsInOrder = <<>>) <=>
        /\ \A i \in 1..Len(productsData) :
            ~Qualifies(productsData[i], combinedProducts)
        /\ ~Truthy(delivery.id)
    /\ (productsData = <<>> /\ Truthy(delivery.id)) =>
        /\ productsInOrder = <<deliveryLine>>
        /\ mounted => order = <<deliveryLine>>

C17_Witness ==
    /\ mounted
    /\ productsData = <<>>
    /\ Truthy(delivery.id)
    /\ order = <<deliveryLine>>
    /\ last.op = "addDeliveryToCart"

\* C18: whenever PaymentPage dispatches createOrder (productsInOrder is not
\* empty) the products of the payload hold every selected in-stock cart line
\* exactly once with its ledger quantity, the delivery line exactly once with
\* quantity 1 when there is a delivery product, and nothing else.
C18_PayloadHoldsEachLineOnce ==
    Len(productsInOrder) > 0 =>
        LET items == productsInOrder
            at(id) == {j \in 1..Len(items) : items[j].productId = id}
            lineIds == {productsData[i].id : i \in
                           {i \in 1..Len(productsData) :
                               Qualifies(productsData[i], combinedProducts)}}
            deliveryIds == IF Truthy(delivery.id) THEN delivery.id ELSE {}
        IN /\ \A id \in lineIds :
                /\ Cardinality(at(id)) = 1
                /\ \A j \in at(id) :
                    items[j].quantity = LineOf(productsData, id).quantity
           /\ \A id \in deliveryIds :
                /\ Cardinality(at(id)) = 1
                /\ \A j \in at(id) : items[j].quantity = 1
           /\ \A j \in 1..Len(items) :
                items[j].productId \in lineIds \cup deliveryIds

C18_Witness ==
    /\ Len(productsInOrder) = 3
    /\ productsInOrder[1].quantity = 2
    /\ productsInOrder[2].quantity = 1
    /\ Len(productsData) = 2

\* C19: while PaymentPage is mounted the draft in the order store is the
\* assembler's output for the current cart state.
C19_StoredDraftIsCurrent ==
    mounted => order = productsInOrder

\* C20: setDeliveryData stores the payload's date, time and address, and the
\* payload's interval when it has one; without one the stored interval stays.
C20_SetDeliveryDataCarriesInterval ==
    [][last'.op = "setDeliveryData" =>
        /\ deliveryData'.date = last'.payload.date
        /\ deliveryData'.time = last'.payload.time
        /\ deliveryData'.address = last'.payload.address
        /\ last'.payload.interval = {}
            => deliveryData'.interval = deliveryData.interval
        /\ \A v \in last'.payload.interval : deliveryData'.interval = v
        /\ last'.by = "onApplyHandle" =>
            /\ deliveryData'.interval = deliveryData.interval
            /\ deliveryData'.address = deliveryData.address]_vars

C20_Witness ==
    /\ last.op = "setDeliveryData"
    /\ last.by = "onApplyHandle"
    /\ last.payload.date = 2
    /\ deliveryData.date = 2
    /\ deliveryData.interval = <<10, 11>>
    /\ deliveryData.address = "Main St"

\* ============================================================ CalendarForm
\* src/components/forms/CalendarForm.tsx.  An instant is a whole number of
\* ticks since the epoch; a calendar day has DayLen ticks.
DayLen == 4
\* Largest instant of an interval bound or of a target date.
MaxInstant == 7

\* The runtime's local timezone, as the ticks local time is ahead of UTC.
Offsets == {0 - 1, 0, 1}

\* dayjs(t).startOf('day'): a dayjs object made without .utc() works on the
\* local clock, so this is the instant of the local midnight at or before t.
\* The trailing .utc() changes the display mode, not the instant.
startOfDay(t, offset) == (((t + offset) \div DayLen) * DayLen) - offset

\* dayjs(t).endOf('day'): the last tick of the same local day.
endOfDay(t, offset) == startOfDay(t, offset) + DayLen - 1

\* filterIntervalsByDate, run where local time is offset ticks ahead of UTC.
filterIntervalsByDate(intervals, targetDate, offset) ==
    IF intervals = Undefined THEN <<>>
    ELSE LET overlaps(iv) ==
                 /\ iv[1] < endOfDay(targetDate, offset)
                 /\ iv[2] > startOfDay(targetDate, offset)
         IN SelectSeq(ValueOf(intervals), overlaps)

\* The schedule's intervals: at most two, each [start, end] with start < end.
ScheduleIntervals ==
    { <<a, b>> : a \in 0..MaxInstant, b \in 0..MaxInstant } \ 
        { iv \in (0..MaxInstant) \X (0..MaxInstant) : iv[1] >= iv[2] }
IntervalLists ==
    {<<>>} \cup { <<iv>> : iv \in ScheduleIntervals }
           \cup { <<iv, jv>> : iv \in ScheduleIntervals, jv \in ScheduleIntervals }

\* A render of the timeIntervals memo: any schedule, date and timezone.
FilterInit ==
    /\ form = [mounted |-> FALSE, date |-> 0, time |-> "",
                currentInterval |-> <<>>, clicked |-> FALSE, offset |-> 0]
    /\ filterCall \in [intervals : {Undefined} \cup { {l} : l \in IntervalLists },
                       targetDate : 0..MaxInstant, offset : Offsets,
                       called : {FALSE}, result : {<<>>}]

timeIntervals ==
    /\ ~filterCall.called
    /\ filterCall' = [filterCall EXCEPT
           !.called = TRUE,
           !.result = filterIntervalsByDate(filterCall.intervals,
                                            filterCall.targetDate,
                                            filterCall.offset)]
    /\ UNCHANGED <<productsData, products, delivery, productsQuery,
                   deliveryData, order, mounted, last, form>>
    /\ UNCHANGED <<paymentVars, gridVars>>

NextFilter == timeIntervals

\* The state before a render of the timeIntervals memo.
InitFilter == CartInit /\ FilterInit /\ PaymentInit /\ GridInit

SpecFilter == InitFilter /\ [][NextFilter]_vars

\* The intervals of l that overlap the UTC calendar day of targetDate.
overlapsUtcDay(iv, targetDate) ==
    /\ iv[1] < endOfDay(targetDate, 0)
    /\ iv[2] > startOfDay(targetDate, 0)

\* C21: filterIntervalsByDate returns exactly the intervals that start before
\* the end and end after the start of the UTC calendar day of targetDate,
\* whatever the local timezone offset of the runtime is.
C21_FilterByUtcDay ==
    (filterCall.called /\ filterCall.intervals # Undefined) =>
        LET l == ValueOf(filterCall.intervals)
        IN /\ Len(filterCall.result) <= Len(l)
           /\ \A iv \in ScheduleIntervals :
                  (\E i \in 1..Len(filterCall.result) : filterCall.result[i] = iv)
                      <=> (/\ \E i \in 1..Len(l) : l[i] = iv
                           /\ overlapsUtcDay(iv, filterCall.targetDate))

\* ================================================ ledger and delivery selection
\* The decrement of the quantity controls: a positive amount.
decreaseProductQtyPositive ==
    \E id \in Ids, quantity \in 1..MaxArg :
        /\ productsData' = decreaseProductQtyFn(productsData, id, quantity)
        /\ InBound(productsData', MaxQty)
        /\ last' = Dispatched("decreaseProductQty", id, quantity, 0, FALSE)
        /\ UNCHANGED <<products, delivery, productsQuery>>
        /\ CartFrame

\* Every ledger operation next to the two operations of the delivery selection.
NextFrame ==
    \/ addProductToCartPriced
    \/ increaseProductQtyAvailable
    \/ decreaseProductQtyPositive
    \/ setProductQtyAvailable
    \/ removeProduct
    \/ deselectProduct
    \/ removeAllProducts
    \/ addDeliveryToCart
    \/ setDeliveryData

SpecFrame == Init /\ [][NextFrame]_vars

LedgerOps ==
    {"addProductToCart", "increaseProductQty", "decreaseProductQty",
     "setProductQty", "removeProduct", "deselectProduct", "removeAllProducts"}

\* C22: no ledger operation changes deliveryData or the delivery product, and
\* setDeliveryData and addDeliveryToCart never change productsData.
C22_LedgerAndDeliveryIndependent ==
    [][/\ last'.op \in LedgerOps =>
              (deliveryData' = deliveryData /\ delivery' = delivery)
       /\ last'.op \in {"setDeliveryData", "addDeliveryToCart"} =>
              productsData' = productsData]_vars

\* removeAllProducts has emptied the ledger and a delivery product and a
\* delivery date, time, address and interval are still stored.
C22_Witness ==
    /\ last.op = "removeAllProducts"
    /\ delivery.id = {9}
    /\ deliveryData = [date |-> 2, time |-> "10:00", address |-> "Main St",
                       interval |-> <<10, 11>>]

\* ========================================================= payment methods
\* PaymentPage.whitelistMethods (src/unnamed/part_008) and
\* PaymentMethod.handleToggleMethod
\* (src/components/layout/payment/components/PaymentMethod.tsx).
\* An account and a whitelist entry are represented by their identifier.
AccountIds == {"cash", "stripe", "paypal"}
WhitelistIds == AccountIds \cup {"invoice"}
\* Longest whitelist.
MaxWhitelist == 2

\* The responses of the accounts API: accounts with distinct identifiers.
AccountLists ==
    { l \in UNION { [1..n -> AccountIds] : n \in 0..Cardinality(AccountIds) } :
          \A i \in 1..Len(l), j \in 1..Len(l) : l[i] = l[j] => i = j }

\* The whitelists of the order slice: missing, empty or some entries.
Whitelists ==
    {Undefined} \cup
        { {l} : l \in UNION { [1..n -> WhitelistIds] : n \in 0..MaxWhitelist } }

InWhitelist(identifier, whitelist) ==
    \E i \in 1..Len(whitelist) : identifier = whitelist[i]

\* The memo returning no account for an empty whitelist.
whitelistMethodsEmptyShowsNone ==
    IF accountsQuery = Undefined THEN <<>>
    ELSE IF paymentMethods = Undefined THEN ValueOf(accountsQuery)
    ELSE LET allowed(method) == InWhitelist(method, ValueOf(paymentMethods))
         IN SelectSeq(ValueOf(accountsQuery), allowed)

\* PaymentPage.whitelistMethods: the accounts rendered as PaymentMethod cards.
whitelistMethods ==
    IF accountsQuery = Undefined THEN <<>>
    ELSE IF paymentMethods = Undefined \/ Len(ValueOf(paymentMethods)) = 0
         THEN ValueOf(accountsQuery)
    ELSE LET allowed(method) == InWhitelist(method, ValueOf(paymentMethods))
         IN SelectSeq(ValueOf(accountsQuery), allowed)

\* PaymentMethod.isActive of the card of one account.
isActive(identifier) == paymentAccountIdentifier = identifier

\* OrderSlice.addPaymentMethod: the payload becomes
\* order.paymentAccountIdentifier.
addPaymentMethodFn(payload) == payload

\* The handler selecting the clicked card whether or not it is active.
handleToggleMethodFnNeverCloses(active, identifier) ==
    addPaymentMethodFn(identifier)

\* PaymentMethod.handleToggleMethod of the card of one account.
handleToggleMethodFn(active, identifier) ==
    IF active THEN addPaymentMethodFn("") ELSE addPaymentMethodFn(identifier)

\* The order slice holds any whitelist when PaymentPage renders.
MethodsInit ==
    /\ accountsQuery = Undefined
    /\ paymentMethods \in Whitelists
    /\ paymentAccountIdentifier = ""

\* useGetAccountsQuery delivers its data.
accountsFetched ==
    \E data \in AccountLists :
        /\ accountsQuery = Undefined
        /\ accountsQuery' = Some(data)
        /\ last' = [op |-> "accountsFetched"]
        /\ UNCHANGED <<productsData, products, delivery, productsQuery,
                       deliveryData, order, mounted>>
        /\ UNCHANGED <<paymentMethods, paymentAccountIdentifier>>
        /\ UNCHANGED <<calendarVars, gridVars>>

\* A click on one of the rendered cards.
handleToggleMethod ==
    \E i \in 1..Len(whitelistMethods) :
        LET identifier == whitelistMethods[i]
        IN /\ paymentAccountIdentifier' =
                  handleToggleMethodFn(isActive(identifier), identifier)
           /\ last' = [op |-> "handleToggleMethod", account |-> identifier,
                       was |-> paymentAccountIdentifier]
           /\ UNCHANGED <<productsData, products, delivery, productsQuery,
                          deliveryData, order, mounted>>
           /\ UNCHANGED <<accountsQuery, paymentMethods>>
           /\ UNCHANGED <<calendarVars, gridVars>>

NextMethods ==
    \/ accountsFetched
    \/ handleToggleMethod

\* PaymentPage before the accounts arrive.
InitMethods == CartInit /\ CalendarInit /\ MethodsInit /\ GridInit

SpecMethods == InitMethods /\ [][NextMethods]_vars

\* The rendered cards that are active.
activeCards ==
    { i \in 1..Len(whitelistMethods) : isActive(whitelistMethods[i]) }

\* C23: at most one card is active; a click on an inactive card makes it the
\* only active card, and a click on the active card stores '' so that no card
\* is active.
C23_SingleChoiceToggle ==
    [][/\ Cardinality(activeCards') <= 1
       /\ last'.op = "handleToggleMethod" =>
              IF isActive(last'.account)
              THEN paymentAccountIdentifier' = "" /\ activeCards' = {}
              ELSE \A i \in 1..Len(whitelistMethods) :
                       i \in activeCards' <=>
                           whitelistMethods[i] = last'.account]_vars

\* A click moved the choice from one card to another one.
C23_Witness ==
    /\ last.op = "handleToggleMethod"
    /\ last.was # ""
    /\ last.was # last.account
    /\ isActive(last.account)
    /\ Cardinality(activeCards) = 1
    /\ Len(whitelistMethods) >= 2

Shown(identifier) ==
    \E i \in 1..Len(whitelistMethods) : whitelistMethods[i] = identifier

\* C24: with a non-empty whitelist a fetched account is shown iff its
\* identifier is the identifier of a whitelist entry; with an empty or
\* missing whitelist all fetched accounts are shown; before the accounts are
\* fetched none is shown.
C24_MethodsFilteredByWhitelist ==
    /\ accountsQuery = Undefined => whitelistMethods = <<>>
    /\ accountsQuery # Undefined =>
          LET data == ValueOf(accountsQuery)
          IN /\ (paymentMethods = Undefined \/ paymentMethods = {<<>>}) =>
                    whitelistMethods = data
             /\ (paymentMethods # Undefined /\ paymentMethods # {<<>>}) =>
                    /\ \A identifier \in WhitelistIds :
                           Shown(identifier) <=>
                               /\ \E i \in 1..Len(data) : data[i] = identifier
                               /\ InWhitelist(identifier, ValueOf(paymentMethods))
                    /\ Len(whitelistMethods) <= Len(data)

\* Three accounts are fetched and the whitelist lets exactly one through.
C24_Witness ==
    /\ accountsQuery # Undefined
    /\ Len(ValueOf(accountsQuery)) = 3
    /\ paymentMethods # Undefined
    /\ Len(ValueOf(paymentMethods)) = 2
    /\ Len(whitelistMethods) = 1

\* ======================================================== QuantitySelector
\* selectCartItemWithIdLength: the quantity of the first line of id, else 0.
selectCartItemWithIdLength(id) ==
    LET index == findIndex(productsData, id)
    IN IF index = 0 THEN 0 ELSE productsData[index].quantity

\* QuantitySelector renders its controls: quantity = selector || 0 and the
\* early return for quantity <= 0.
QuantitySelectorRendered(id) ==
    LET quantity == IF selectCartItemWithIdLength(id) # 0
                    THEN selectCartItemWithIdLength(id) ELSE 0
    IN ~(quantity <= 0)

\* C25: in every reachable cart state and for every product id,
\* selectCartItemWithIdLength(state, id) > 0 (QuantitySelector is rendered)
\* if and only if selectIsInCart(state, id) (a line for id exists).
C25_SelectorShownIffInCart ==
    \A id \in Ids :
        /\ selectCartItemWithIdLength(id) > 0 <=> selectIsInCart(id)
        /\ QuantitySelectorRendered(id) <=> selectIsInCart(id)

\* ================================================================ LoadMore
\* src/components/layout/products-grid/components/LoadMore.tsx.  page is the
\* page parameter of the URL: {} when absent, else {n}.
\* Largest totalPages.
MaxPages == 8

\* The page parameters a URL may carry, the address bar included.
PageParams == {Undefined} \cup { {n} : n \in (0 - 1)..(MaxPages + 1) }

\* Number(searchParams.get('page')) || 1
currentPage == IF Truthy(page) THEN ValueOf(page) ELSE 1

nextPage == (IF currentPage < 1 THEN 1 ELSE currentPage) + 1

\* The page goToNextPage pushes.
goToNextPageFn == IF nextPage <= totalPages THEN nextPage ELSE currentPage

\* useGSAP: the scroll trigger exists unless nextPage > totalPages.
triggerInstalled == ~(nextPage > totalPages)

\* The listing is opened at any URL, with any number of pages.
LoadMoreInit ==
    /\ page \in PageParams
    /\ totalPages \in 1..MaxPages

\* A click on the button: goToNextPage.
clickLoadMore ==
    /\ page' = Some(goToNextPageFn)
    /\ last' = [op |-> "goToNextPage", by |-> "onClick", from |-> currentPage]
    /\ UNCHANGED <<productsData, products, delivery, productsQuery,
                   deliveryData, order, mounted, totalPages>>
    /\ UNCHANGED <<calendarVars, paymentVars>>

\* The button scrolls into view: the trigger's onEnter calls goToNextPage.
onEnter ==
    /\ triggerInstalled
    /\ page' = Some(goToNextPageFn)
    /\ last' = [op |-> "goToNextPage", by |-> "onEnter", from |-> currentPage]
    /\ UNCHANGED <<productsData, products, delivery, productsQuery,
                   deliveryData, order, mounted, totalPages>>
    /\ UNCHANGED <<calendarVars, paymentVars>>

NextLoadMore ==
    \/ clickLoadMore
    \/ onEnter

\* The products grid at any URL.
InitLoadMore == CartInit /\ CalendarInit /\ PaymentInit /\ LoadMoreInit

SpecLoadMore == InitLoadMore /\ [][NextLoadMore]_vars

\* C26: for every currentPage read from the URL and every totalPages,
\* goToNextPage navigates to currentPage + 1 when that is <= totalPages and
\* otherwise to a page <= totalPages; the scroll trigger is not installed
\* when the next page would exceed totalPages.
C26_NeverBeyondTotalPages ==
    [][/\ last'.op = "goToNextPage" =>
              IF currentPage + 1 <= totalPages
              THEN currentPage' = currentPage + 1
              ELSE currentPage' <= totalPages
       /\ (last'.op = "goToNextPage" /\ last'.by = "onEnter") =>
              currentPage + 1 <= totalPages]_vars

\* ===================================================== the selected flag
\* C27: of the quantity-changing operations only increaseProductQty alters
\* the selected flag: on an existing line it leaves selected = true, even if
\* the line was deselected; addProductToCart, decreaseProductQty (when the
\* line survives) and setProductQty keep the flag of an existing line.
C27_OnlyIncreaseSelects ==
    [][/\ (last'.op = "increaseProductQty" /\ HasLine(productsData, last'.id)) =>
              /\ HasLine(productsData', last'.id)
              /\ LineOf(productsData', last'.id).selected
       /\ (/\ last'.op \in {"addProductToCart", "decreaseProductQty",
                            "setProductQty"}
           /\ HasLine(productsData, last'.id)
           /\ HasLine(productsData', last'.id)) =>
              LineOf(productsData', last'.id).selected =
                  LineOf(productsData, last'.id).selected]_vars

\* increaseProductQty by one has raised an existing line of product 2 to
\* quantity 2 (a line it creates has quantity 1) and the line is selected.
C27_Witness ==
    /\ last.op = "increaseProductQty"
    /\ last.id = 2
    /\ last.quantity = 1
    /\ HasLine(productsData, 2)
    /\ LineOf(productsData, 2).quantity = 2
    /\ LineOf(productsData, 2).selected

\* ================================================== CalendarForm, the form
\* src/components/forms/CalendarForm.tsx and calendar/TimeSlot.tsx.  The
\* effect on [date, time, deliveryData.address, currentInterval] runs in the
\* same step as the state change that triggers it.
\* The intervals of the shipping schedule: two slots on each of the first two
\* days and one slot across their midnight.
FormSchedule == <<<<1, 2>>, <<2, 3>>, <<3, 5>>, <<5, 6>>, <<6, 7>>>>

\* The days react-calendar hands to onChange, as their local midnights.
CalendarDays(offset) ==
    { (d * DayLen) - offset : d \in 0..(MaxInstant \div DayLen) }

\* `${d.getUTCHours()}:${minutes}` of the start of an interval.
TimeLabels == <<"0:00", "6:00", "12:00", "18:00">>
timeOf(interval) == TimeLabels[(interval[1] % DayLen) + 1]

\* The timeIntervals memo: the slots offered for the form's date.
timeSlots(date) ==
    filterIntervalsByDate(Some(FormSchedule), date, form.offset)

\* The payload without the interval.
formPayloadOmitsInterval(f, address) ==
    [date |-> f.date, time |-> f.time, address |-> address,
     interval |-> Undefined]

\* The payload of the form's two dispatches of setDeliveryData.
formPayload(f, address) ==
    [date |-> f.date, time |-> f.time, address |-> address,
     interval |-> Some(f.currentInterval)]

\* The effect (and onApplyHandle's dispatch) for the form state f.
formDispatch(f, by) ==
    /\ deliveryData' =
           setDeliveryDataFn(deliveryData, formPayload(f, deliveryData.address))
    /\ last' = [op |-> "setDeliveryData", by |-> by,
                payload |-> formPayload(f, deliveryData.address)]
    /\ UNCHANGED <<productsData, products, delivery, productsQuery, order,
                   mounted, filterCall>>
    /\ UNCHANGED <<paymentVars, gridVars>>

\* The drawer opens with CalendarForm: useState initialises the local state
\* from the store and the effect runs.
openCalendarForm ==
    /\ ~form.mounted
    /\ form' = [mounted |-> TRUE, date |-> deliveryData.date,
                time |-> deliveryData.time, currentInterval |-> <<>>,
                clicked |-> FALSE, offset |-> form.offset]
    /\ formDispatch(form', "openCalendarForm")

\* handleDateChange clearing the chosen slot.
handleDateChangeFnClearsSlot(f, value) ==
    [f EXCEPT !.date = value, !.time = "", !.currentInterval = <<>>]

\* handleDateChange: setDate(value).
handleDateChangeFn(f, value) == [f EXCEPT !.date = value]

handleDateChange ==
    \E value \in CalendarDays(form.offset) :
        /\ form.mounted
        /\ form' = handleDateChangeFn(form, value)
        /\ formDispatch(form', "handleDateChange")

\* TimeSlots.handleTimeSelect: setTime(time), setInterval(interval).
handleTimeSelectFn(f, interval) ==
    [f EXCEPT !.time = timeOf(interval), !.currentInterval = interval,
              !.clicked = TRUE]

\* A click on one of the slots offered for the form's date.
handleTimeSelect ==
    \E i \in 1..Len(timeSlots(form.date)) :
        /\ form.mounted
        /\ form' = handleTimeSelectFn(form, timeSlots(form.date)[i])
        /\ formDispatch(form', "handleTimeSelect")

\* The Apply button of CalendarForm.tsx: the dispatch, then the drawer closes.
onApplyHandleWithInterval ==
    /\ form.mounted
    /\ form' = [form EXCEPT !.mounted = FALSE]
    /\ formDispatch(form, "onApplyHandleWithInterval")

NextCalendar ==
    \/ openCalendarForm
    \/ handleDateChange
    \/ handleTimeSelect
    \/ onApplyHandleWithInterval

\* The form is closed; the browser runs in any of the timezones.
FormInit ==
    /\ form \in [mounted : {FALSE}, date : {0}, time : {""},
                  currentInterval : {<<>>}, clicked : {FALSE},
                  offset : Offsets]
    /\ filterCall = [intervals |-> Undefined, targetDate |-> 0, offset |-> 0,
                      called |-> FALSE, result |-> <<>>]

\* The cart page before the drawer opens.
InitCalendar == CartInit /\ FormInit /\ PaymentInit /\ GridInit

SpecCalendar == InitCalendar /\ [][NextCalendar]_vars

FormDispatches ==
    {"openCalendarForm", "handleDateChange", "handleTimeSelect",
     "onApplyHandleWithInterval"}

DispatchedByForm(l) == l.op = "setDeliveryData" /\ l.by \in FormDispatches

\* C28: when CalendarForm mounts its effect dispatches setDeliveryData with
\* interval = currentInterval, which starts as []: until a slot is clicked the
\* stored interval is overwritten with [] while the stored time label is
\* kept, and no dispatch of this form omits the interval.
C28_MountOverwritesInterval ==
    [][DispatchedByForm(last') =>
           /\ last'.payload.interval # Undefined
           /\ deliveryData'.interval = form'.currentInterval
           /\ ~form'.clicked =>
                  /\ deliveryData'.interval = <<>>
                  /\ deliveryData'.time = deliveryData.time]_vars

\* The form was opened again after a slot had been applied: the stored
\* interval is [] and the stored time is still the label of the slot.
C28_Witness ==
    /\ DispatchedByForm(last)
    /\ last.by = "openCalendarForm"
    /\ form.mounted
    /\ ~form.clicked
    /\ deliveryData.time = "6:00"
    /\ deliveryData.interval = <<>>

\* C29: changing the date changes only the date: the chosen time label and
\* interval are neither cleared nor re-validated and are dispatched with the
\* new date, so a stored interval that does not overlap the stored date is
\* reachable.
C29_DateChangeKeepsSlot ==
    [][(DispatchedByForm(last') /\ last'.by = "handleDateChange") =>
           /\ form'.time = form.time
           /\ form'.currentInterval = form.currentInterval
           /\ deliveryData'.date = form'.date
           /\ deliveryData'.time = form.time
           /\ deliveryData'.interval = form.currentInterval
           /\ deliveryData'.address = deliveryData.address]_vars

\* After a click on slot <<1, 2>> of the first day and a change to the second
\* day the store holds the second day with the slot of the first day.
C29_Witness ==
    /\ DispatchedByForm(last)
    /\ last.by = "handleDateChange"
    /\ form.offset = 0
    /\ deliveryData.date = DayLen
    /\ deliveryData.time = "6:00"
    /\ deliveryData.interval = <<1, 2>>
    /\ ~overlapsUtcDay(deliveryData.interval, deliveryData.date)

\* ============================================= total and draft, line by line
\* Single-quantity lines under every catalogue response and delivery product.
NextLines ==
    \/ addProductToCartSingle
    \/ deselectProduct
    \/ removeAllProducts
    \/ addProductsToCart
    \/ addDeliveryToCart

SpecLines == Init /\ [][NextLines]_vars

\* The draft has a product line for the cart line.
InDraft(line) ==
    \E j \in 1..Len(draftProductLines) :
        /\ draftProductLines[j].productId = line.id
        /\ draftProductLines[j].quantity = line.quantity

\* C30: for the same ledger and the same snapshot list a cart line passes
\* selectCartTotal's inclusion test iff it is among the product lines of
\* productsInOrder; the total charges for no line missing from the draft and
\* the draft has no product line left out of the total.
C30_TotalAndDraftAgreeOnLines ==
    \A i \in 1..Len(productsData) :
        LET line == productsData[i] IN
        /\ \A ps \in {products, combinedProducts} :
               InTotal(line, ps) <=> InOrder(line, ps)
        /\ products = combinedProducts =>
               /\ InTotal(line, products) <=> InDraft(line)
               /\ LineAmount(line, products) # 0 => InDraft(line)
               /\ InDraft(line) => InTotal(line, products)

\* Total and draft read the same non-empty snapshot list; one line is in both
\* and another selected line with a snapshot is in neither.
C30_Witness ==
    /\ products = combinedProducts
    /\ Len(products) = 2
    /\ Len(productsData) = 2
    /\ \E i \in 1..2, j \in 1..2 :
           /\ InTotal(productsData[i], products)
           /\ InDraft(productsData[i])
           /\ LineAmount(productsData[i], products) > 0
           /\ productsData[j].selected
           /\ ~InTotal(productsData[j], products)
           /\ ~InDraft(productsData[j])
====
